---- MODULE Spec2Model ----
(***************************************************************************)
(* The fragment / param template tags of gaeextras/django/templatetags/    *)
(* fragments.py.                                                           *)
(*                                                                         *)
(* Rendering is modelled as a small-step machine: `stack` is the Python    *)
(* call stack of render() activations, `context` is the django Context     *)
(* (a list of dicts, the current scope first).  An exception unwinds the   *)
(* whole call stack, because nothing in the file catches one.              *)
(*                                                                         *)
(* A Python string is a sequence of atoms (<<"a", "b">> is "ab", <<>> is   *)
(* the empty string).                                                      *)
(***************************************************************************)
EXTENDS Integers, Sequences, FiniteSets, TLC

VARIABLES
    context,    \* the django Context being rendered against: <<top dict, ..., bottom dict>>
    stack,      \* call stack of render() activations, the running one first
    status,     \* "running" | "done" | "failed"
    error,      \* name of the exception that ended the render, "" if none
    result,     \* the string returned by the outermost render
    ctx0,       \* the caller's context when the render began
    root,       \* the node list rendered by the caller
    tokens,     \* the token list handed to the template parser
    phase,      \* "render" | "source" | "compiled"
    compiled    \* what compiling tokens came to

vars == <<context, stack, status, error, result, ctx0, root, tokens, phase, compiled>>

----------------------------------------------------------------------------
(* Bounds of the model *)

\* most children in the body of one fragment tag
MaxParams == 2
\* most times the same fragment tag is rendered in sequence
MaxRepeat == 2
\* most tokens in a template source handed to the parser
MaxTokens == 4
\* the deepest chain of render calls the interpreter allows
RecursionLimit == 9

----------------------------------------------------------------------------
(* Python values *)

PyStr(s) == [py |-> "str", s |-> s]
True     == [py |-> "bool", s |-> <<>>]
\* marks a key that a dict does not hold
Absent   == [py |-> "absent", s |-> <<>>]

\* str(v), as the template engine writes a value to the output
Str(v) == IF v.py = "bool" THEN <<"True">> ELSE v.s

\* the key of the guard marker: FragmentNode.__class__ is `type`
GuardKey == "type"

Names == {"x", "y"}
Keys  == Names \cup {"t", GuardKey}

----------------------------------------------------------------------------
(* django.template.Context: a list of dicts, dicts[0] is the current scope *)

EmptyDict == [k \in Keys |-> Absent]

\* context.push()
Push(c) == <<EmptyDict>> \o c

\* context.pop()
Pop(c) == Tail(c)

\* context[k] = v written to the newest scope that already holds k, and to the
\* current scope only when none does
SetItem_upward(c, k, v) ==
    IF \E i \in 1..Len(c) : c[i][k] # Absent
    THEN LET i == CHOOSE i \in 1..Len(c) :
                      /\ c[i][k] # Absent
                      /\ \A j \in 1..(i-1) : c[j][k] = Absent
         IN  [c EXCEPT ![i][k] = v]
    ELSE [c EXCEPT ![1][k] = v]

\* context[k] = v  (always the current scope)
SetItem(c, k, v) == [c EXCEPT ![1][k] = v]

\* del context[k]  (always the current scope)
DelItem(c, k) == [c EXCEPT ![1][k] = Absent]

\* k in context  (any scope)
Contains(c, k) == \E i \in 1..Len(c) : c[i][k] # Absent

\* context[k]  (the innermost scope that holds k)
GetItem(c, k) ==
    LET i == CHOOSE i \in 1..Len(c) :
                 /\ c[i][k] # Absent
                 /\ \A j \in 1..(i-1) : c[j][k] = Absent
    IN  c[i][k]

\* what a template reads for k: Absent when no scope holds it
Lookup(c, k) == IF Contains(c, k) THEN GetItem(c, k) ELSE Absent

----------------------------------------------------------------------------
(* Expressions: a quoted literal or a variable, with an optional filter *)

NoExpr == [form |-> "none", var |-> "", lit |-> <<>>, filter |-> ""]
Lit(s) == [form |-> "lit", var |-> "", lit |-> s, filter |-> ""]
Var(n) == [form |-> "var", var |-> n, lit |-> <<>>, filter |-> ""]
Filtered(e, f) == [e EXCEPT !.filter = f]

UpperAtom(a) ==
    CASE a = "a" -> "A"
      [] a = "b" -> "B"
      [] a = "True" -> "TRUE"
      [] OTHER -> a

\* the `upper` filter: str(value).upper()
Upper(v) == PyStr([i \in 1..Len(Str(v)) |-> UpperAtom(Str(v)[i])])

\* FilterExpression.resolve(context): an unknown variable resolves to the
\* empty string (TEMPLATE_STRING_IF_INVALID)
Resolve(e, c) ==
    LET base == IF e.form = "lit" THEN PyStr(e.lit)
                ELSE IF Contains(c, e.var) THEN GetItem(c, e.var)
                ELSE PyStr(<<>>)
    IN  IF e.filter = "upper" THEN Upper(base) ELSE base

\* the quoted string literals that occur as template names
Quoted == {"'f.html'", "'g.html'", "'p.html'", "'bad.html'", "'a.html'", "'b.html'",
           "'missing.html'", "\"a b\""}

Unquote(path) ==
    CASE path = "'f.html'" -> "f.html"
      [] path = "'g.html'" -> "g.html"
      [] path = "'p.html'" -> "p.html"
      [] path = "'bad.html'" -> "bad.html"
      [] path = "'a.html'" -> "a.html"
      [] path = "'b.html'" -> "b.html"
      [] path = "\"a b\"" -> "a b"
      [] OTHER -> "missing.html"

\* resolve_variable(path, context): a quoted path is the string itself, any
\* other path is looked up, and an unknown variable raises
ResolveVariable(path, c) ==
    IF path \in Quoted THEN [ok |-> TRUE, v |-> PyStr(<<Unquote(path)>>)]
    ELSE IF path \in Keys /\ Contains(c, path) THEN [ok |-> TRUE, v |-> GetItem(c, path)]
    ELSE [ok |-> FALSE, v |-> Absent]

----------------------------------------------------------------------------
(* Nodes *)

\* body_value = None
NoBody == [some |-> FALSE, nodes |-> <<>>]
\* body_value = a NodeList
NodeList(ns) == [some |-> TRUE, nodes |-> ns]

TextNode(s) ==
    [kind |-> "text", s |-> s, expr |-> NoExpr, name |-> "", value |-> NoExpr,
     body_value |-> NoBody, template_name |-> "", params |-> <<>>]

VariableNode(e) ==
    [kind |-> "var", s |-> <<>>, expr |-> e, name |-> "", value |-> NoExpr,
     body_value |-> NoBody, template_name |-> "", params |-> <<>>]

\* FragmentNode.__init__
FragmentNode(template_name, params) ==
    [kind |-> "fragment", s |-> <<>>, expr |-> NoExpr, name |-> "", value |-> NoExpr,
     body_value |-> NoBody, template_name |-> template_name, params |-> params]

\* ParamNode.__init__
ParamNode(name, value, body_value) ==
    [kind |-> "param", s |-> <<>>, expr |-> NoExpr, name |-> name, value |-> value,
     body_value |-> body_value, template_name |-> "", params |-> <<>>]

\* Python truth of ParamNode.value: None is false, a FilterExpression is true
ValueTruthy(v) == v.form # "none"

\* Python truth of ParamNode.body_value: None and the empty NodeList are false
BodyTruthy(b) == b.some /\ Len(b.nodes) > 0

----------------------------------------------------------------------------
(* The tag compilers `fragment` and `param`, and the host parser they drive *)

\* a token of the template source; the contents of a block token are its
\* words with " " between them (a quoted string with a space in it is the
\* words "\"a", " ", "b\"")
Token(token_type, contents) == [token_type |-> token_type, contents |-> contents]

\* token.contents as one string
RECURSIVE ContentsStr(_)
ContentsStr(contents) ==
    IF contents = <<>> THEN "" ELSE Head(contents) \o ContentsStr(Tail(contents))

\* str.split(): the words between runs of whitespace
RECURSIVE SplitAcc(_, _, _)
SplitAcc(contents, word, bits) ==
    IF contents = <<>> THEN (IF word = "" THEN bits ELSE Append(bits, word))
    ELSE IF Head(contents) = " "
         THEN SplitAcc(Tail(contents), "", IF word = "" THEN bits ELSE Append(bits, word))
         ELSE SplitAcc(Tail(contents), word \o Head(contents), bits)

Split(contents) == SplitAcc(contents, "", <<>>)

\* Token.split_contents(): as split(), but whitespace inside a quoted string
\* does not separate
RECURSIVE SplitContentsAcc(_, _, _, _)
SplitContentsAcc(contents, word, bits, quoted) ==
    IF contents = <<>> THEN (IF word = "" THEN bits ELSE Append(bits, word))
    ELSE IF Head(contents) = " " /\ ~quoted
         THEN SplitContentsAcc(Tail(contents), "",
                               IF word = "" THEN bits ELSE Append(bits, word), FALSE)
         ELSE SplitContentsAcc(Tail(contents), word \o Head(contents), bits,
                               CASE Head(contents) = "\"a" -> TRUE
                                 [] Head(contents) = "b\"" -> FALSE
                                 [] OTHER -> quoted)

SplitContents(contents) == SplitContentsAcc(contents, "", <<>>, FALSE)

\* " ".join(bits)
RECURSIVE Join(_)
Join(bits) ==
    IF bits = <<>> THEN ""
    ELSE IF Len(bits) = 1 THEN bits[1]
    ELSE bits[1] \o " " \o Join(Tail(bits))

\* parser.compile_filter(token): a quoted literal or a variable name compiles,
\* anything left over is a TemplateSyntaxError
CompileFilter(token) ==
    CASE token = "'a'"     -> [ok |-> TRUE, expr |-> Lit(<<"a">>)]
      [] token = "\"a b\"" -> [ok |-> TRUE, expr |-> Lit(<<"a", " ", "b">>)]
      [] token \in Keys    -> [ok |-> TRUE, expr |-> Var(token)]
      [] OTHER             -> [ok |-> FALSE, expr |-> NoExpr]

\* `token.contents in parse_until`, where lines 83 and 114 pass parse_until as
\* one string ('end' + tag), so that `in` is the substring test; until = ""
\* stands for the empty parse_until of the outermost parse
InParseUntil(contents, until) ==
    /\ until # ""
    /\ \/ contents = until
       \/ contents = "param" /\ until = "endparam"
       \/ contents = "fragment" /\ until = "endfragment"

\* what a compile step comes to: the nodes made and the tokens left, or the
\* exception raised
Compiled(nodes, rest) == [ok |-> TRUE, err |-> "", nodes |-> nodes, tokens |-> rest]
CompileError(e) == [ok |-> FALSE, err |-> e, nodes |-> <<>>, tokens |-> <<>>]
NotCompiled == [ok |-> FALSE, err |-> "", nodes |-> <<>>, tokens |-> <<>>]

\* nodelist.append(node), then the rest of the parse loop
Extend(node, r) == IF r.ok THEN [r EXCEPT !.nodes = <<node>> \o @] ELSE r

RECURSIVE parse(_, _)
RECURSIVE fragment(_, _)
RECURSIVE param(_, _)

\* Parser.parse(parse_until) on the token list toks: nodes up to the first
\* block token in parse_until, which is left at the head of the tokens
parse(toks, until) ==
    IF toks = <<>>
    THEN IF until # "" THEN CompileError("TemplateSyntaxError")   \* unclosed tag
         ELSE Compiled(<<>>, <<>>)
    ELSE LET token == Head(toks)
             rest  == Tail(toks)
             bits  == Split(token.contents)
         IN  IF token.token_type = "text"
             THEN Extend(TextNode(token.contents), parse(rest, until))
             ELSE IF token.token_type = "var"
             THEN LET fe == CompileFilter(ContentsStr(token.contents))
                  IN  IF ~fe.ok THEN CompileError("TemplateSyntaxError")
                      ELSE Extend(VariableNode(fe.expr), parse(rest, until))
             ELSE IF InParseUntil(ContentsStr(token.contents), until)
             THEN Compiled(<<>>, toks)
             ELSE IF bits = <<>>
             THEN CompileError("TemplateSyntaxError")              \* empty block tag
             ELSE IF bits[1] \notin {"fragment", "param"}
             THEN CompileError("TemplateSyntaxError")              \* invalid block tag
             ELSE LET r == IF bits[1] = "fragment" THEN fragment(rest, token)
                           ELSE param(rest, token)
                  IN  IF ~r.ok THEN r
                      ELSE Extend(r.nodes[1], parse(r.tokens, until))

\* lines 81-85: fragment(parser, token), toks being parser.tokens
fragment(toks, token) ==
    LET bits == SplitContents(token.contents)
    IN  \* line 82: tag, template_name = token.split_contents()
        IF Len(bits) # 2 THEN CompileError("ValueError")
        ELSE LET params == parse(toks, "end" \o bits[1])           \* line 83
             IN  IF ~params.ok THEN params
                 ELSE \* line 84: parser.delete_first_token()
                      Compiled(<<FragmentNode(bits[2], params.nodes)>>, Tail(params.tokens))

\* lines 102-117: param(parser, token), toks being parser.tokens
param(toks, token) ==
    LET bits == Split(token.contents)
    IN  IF Len(bits) < 2 THEN CompileError("TemplateSyntaxError")  \* lines 105-107
        ELSE LET value == IF Len(bits) > 2                          \* lines 108-110
                          THEN CompileFilter(Join(SubSeq(bits, 3, Len(bits))))
                          ELSE [ok |-> TRUE, expr |-> NoExpr]
             IN  IF ~value.ok THEN CompileError("TemplateSyntaxError")
                 ELSE IF ~ValueTruthy(value.expr)                   \* line 113
                 THEN LET body == parse(toks, "end" \o bits[1])     \* line 114
                      IN  IF ~body.ok THEN body
                          ELSE \* line 115: parser.delete_first_token()
                               Compiled(<<ParamNode(bits[2], value.expr, NodeList(body.nodes))>>,
                                        Tail(body.tokens))
                 ELSE Compiled(<<ParamNode(bits[2], value.expr, NoBody)>>, toks)

\* the tokens a template source is made of
TokenAlphabet ==
    { Token("text",  <<"b">>),
      Token("var",   <<"x">>),
      Token("block", <<"fragment", " ", "'f.html'">>),
      Token("block", <<"fragment">>),
      Token("block", <<"fragment", " ", "'f.html'", " ", "x">>),
      Token("block", <<"fragment", " ", "\"a", " ", "b\"">>),
      Token("block", <<"endfragment">>),
      Token("block", <<"param">>),
      Token("block", <<"param", " ", "x">>),
      Token("block", <<"param", " ", "x", " ", "'a'">>),
      Token("block", <<"param", " ", "x", " ", "\"a", " ", "b\"">>),
      Token("block", <<"param", " ", "x", " ", "a", " ", "b">>),
      Token("block", <<"endparam">>) }

\* the template is compiled: the outermost parse of all its tokens
Compile ==
    /\ phase = "source"
    /\ compiled' = parse(tokens, "")
    /\ phase' = "compiled"
    /\ UNCHANGED <<context, stack, status, error, result, ctx0, root, tokens>>

----------------------------------------------------------------------------
(* The template loader: the sub-templates a fragment can name *)

\* reads x and y
T_f == <<VariableNode(Var("x")), TextNode(<<"|">>), VariableNode(Var("y"))>>
\* reads y
T_g == <<TextNode(<<"(">>), VariableNode(Var("y")), TextNode(<<")">>)>>
\* holds a param tag of its own
T_p == <<ParamNode("y", Lit(<<"b">>), NoBody), VariableNode(Var("y"))>>
\* includes a template that does not exist
T_bad == <<FragmentNode("'missing.html'", <<>>)>>

\* two templates that include each other through a fragment
T_a == <<TextNode(<<"a">>), FragmentNode("'b.html'", <<>>)>>
T_b == <<FragmentNode("'a.html'", <<>>)>>

TemplateNames == {<<"f.html">>, <<"g.html">>, <<"p.html">>, <<"bad.html">>,
                  <<"a.html">>, <<"b.html">>}

\* loader.get_template(name): TemplateDoesNotExist for an unknown name
GetTemplate(v) ==
    IF v.py = "str" /\ v.s \in TemplateNames
    THEN [ok |-> TRUE,
          nodes |-> CASE v.s = <<"f.html">> -> T_f
                      [] v.s = <<"g.html">> -> T_g
                      [] v.s = <<"p.html">> -> T_p
                      [] v.s = <<"a.html">> -> T_a
                      [] v.s = <<"b.html">> -> T_b
                      [] OTHER -> T_bad]
    ELSE [ok |-> FALSE, nodes |-> <<>>]

----------------------------------------------------------------------------
(* The inputs: the node lists a caller renders and the contexts it passes *)

\* {% param x "a" %}
P_x_lit == ParamNode("x", Lit(<<"a">>), NoBody)
\* {% param y x|upper %}
P_y_xup == ParamNode("y", Filtered(Var("x"), "upper"), NoBody)
\* {% param x %}b{% endparam %}
P_x_text == ParamNode("x", NoExpr, NodeList(<<TextNode(<<"b">>)>>))
\* {% param x %}{% endparam %}
P_x_empty == ParamNode("x", NoExpr, NodeList(<<>>))
\* {% param y %}{{ x }}{% endparam %}
P_y_x == ParamNode("y", NoExpr, NodeList(<<VariableNode(Var("x"))>>))
\* {% fragment "g.html" %}{% param y "1" %}{% endfragment %}
F_inner == FragmentNode("'g.html'", <<ParamNode("y", Lit(<<"1">>), NoBody)>>)
\* {% param x %}{% fragment "g.html" %}{% param y "1" %}{% endfragment %}{% endparam %}
P_x_frag == ParamNode("x", NoExpr, NodeList(<<F_inner>>))
\* {% param y %}{% param x "a" %}{% endparam %}
P_y_param == ParamNode("y", NoExpr, NodeList(<<P_x_lit>>))
\* {% param x %}{% fragment "missing.html" %}{% endfragment %}{% endparam %}
P_x_fail == ParamNode("x", NoExpr, NodeList(<<FragmentNode("'missing.html'", <<>>)>>))

\* what the parser can yield between {% fragment %} and {% endfragment %}
Children ==
    {P_x_lit, P_y_xup, P_x_text, P_x_empty, P_y_x, P_x_frag, P_y_param, P_x_fail,
     TextNode(<<" ">>)}

RECURSIVE SeqsUpTo(_, _)
SeqsUpTo(S, n) ==
    IF n = 0 THEN {<<>>}
    ELSE LET shorter == SeqsUpTo(S, n - 1)
         IN  shorter \cup {Append(q, e) : q \in {r \in shorter : Len(r) = n - 1}, e \in S}

TemplateNameExprs == {"'f.html'", "'p.html'", "'bad.html'", "'a.html'", "t"}

Fragments ==
    {FragmentNode(t, ps) : t \in TemplateNameExprs, ps \in SeqsUpTo(Children, MaxParams)}

\* the fragments that are also rendered several times in sequence
RepeatedFragments ==
    {FragmentNode(t, ps) : t \in TemplateNameExprs, ps \in SeqsUpTo(Children, 1)}

Repeat(n, r) == [i \in 1..r |-> n]

\* one fragment, or one fragment several times in sequence, or one child of a
\* fragment body rendered with no fragment around it
Roots ==
    {<<f>> : f \in Fragments}
    \cup {Repeat(f, r) : f \in RepeatedFragments, r \in 2..MaxRepeat}
    \cup {<<p>> : p \in Children}

Dict(x, y, t, g) == [k \in Keys |-> CASE k = "x" -> x
                                      [] k = "y" -> y
                                      [] k = "t" -> t
                                      [] OTHER -> g]

Contexts ==
    { <<EmptyDict>>,
      <<Dict(Absent, PyStr(<<"B">>), Absent, Absent),
        Dict(PyStr(<<"A">>), PyStr(<<"b">>), PyStr(<<"f.html">>), Absent)>>,
      <<Dict(PyStr(<<"A">>), Absent, PyStr(<<"nope.html">>), PyStr(<<"c">>))>>,
      <<Dict(Absent, PyStr(<<"B">>), Absent, Absent),
        Dict(PyStr(<<"A">>), Absent, PyStr(<<"f.html">>), PyStr(<<"c">>))>> }

----------------------------------------------------------------------------
(* The call stack *)

\* a render() activation: fn is the kind of node being rendered ("nodelist" for
\* NodeList.render), pc the line it is at, i the loop index, bits the strings
\* gathered so far, template the loaded sub-template, body the local `body`;
\* entry remembers the context at the call
Activation(fn, node, nodes, pc) ==
    [fn |-> fn, node |-> node, nodes |-> nodes, pc |-> pc, i |-> 1, bits |-> <<>>,
     template |-> <<>>, body |-> <<>>, entry |-> context]

\* node.render(context) is called
Enter(node) ==
    CASE node.kind = "fragment" -> Activation("fragment", node, node.params, "load")
      [] node.kind = "param"    -> Activation("param", node, <<>>, "guard")
      [] OTHER                  -> Activation(node.kind, node, <<>>, "render")

\* NodeList.render(context) is called
EnterNodeList(nodes) == Activation("nodelist", TextNode(<<>>), nodes, "loop")

top == stack[1]
Running(fn, pc) ==
    /\ status = "running"
    /\ stack # <<>>
    /\ top.fn = fn
    /\ top.pc = pc

\* the running activation moves on
Goto(pc) == stack' = <<[top EXCEPT !.pc = pc]>> \o Tail(stack)

\* line 73 keeping what the children render: it is put before the sub-template's
\* string
Resume_keeps_children_output(caller, value) ==
    CASE caller.fn = "nodelist" ->
            [caller EXCEPT !.bits = @ \o value, !.i = @ + 1, !.pc = "loop"]
      [] caller.fn = "fragment" /\ caller.pc = "param" ->
            [caller EXCEPT !.body = @ \o value, !.i = @ + 1, !.pc = "params"]
      [] caller.fn = "fragment" /\ caller.pc = "template" ->
            [caller EXCEPT !.body = @ \o value, !.pc = "del"]
      [] OTHER ->
            [caller EXCEPT !.bits = value, !.pc = "bind"]

\* the caller takes the string its callee returned
Resume(caller, value) ==
    CASE caller.fn = "nodelist" ->
            \* bits.append(node.render(context))
            [caller EXCEPT !.bits = @ \o value, !.i = @ + 1, !.pc = "loop"]
      [] caller.fn = "fragment" /\ caller.pc = "param" ->
            \* line 73: the string i.render(context) returns is dropped
            [caller EXCEPT !.i = @ + 1, !.pc = "params"]
      [] caller.fn = "fragment" /\ caller.pc = "template" ->
            \* line 74: body = template.render(context)
            [caller EXCEPT !.body = value, !.pc = "del"]
      [] OTHER ->
            \* line 99: the right-hand side self.body_value.render(context)
            [caller EXCEPT !.bits = value, !.pc = "bind"]

\* the running activation returns value to its caller
Return(value) ==
    IF Len(stack) = 1
    THEN /\ stack' = <<>>
         /\ status' = "done"
         /\ result' = value
         /\ UNCHANGED error
    ELSE /\ stack' = <<Resume(stack[2], value)>> \o SubSeq(stack, 3, Len(stack))
         /\ UNCHANGED <<status, result, error>>

\* an exception is raised: no handler anywhere, every activation is left
Raise(e) ==
    /\ stack' = <<>>
    /\ status' = "failed"
    /\ error' = e
    /\ UNCHANGED result

\* the running activation calls callee and waits at pc for its result; the
\* interpreter refuses a call deeper than its recursion limit with RuntimeError
Call(callee, pc) ==
    IF Len(stack) >= RecursionLimit
    THEN Raise("RuntimeError")
    ELSE /\ stack' = <<callee, [top EXCEPT !.pc = pc]>> \o Tail(stack)
         /\ UNCHANGED <<status, error, result>>

----------------------------------------------------------------------------
(* The host engine's nodes *)

\* NodeList.render: render the next node
NodeList_render_next ==
    /\ Running("nodelist", "loop")
    /\ top.i <= Len(top.nodes)
    /\ Call(Enter(top.nodes[top.i]), "wait")
    /\ UNCHANGED <<context, ctx0, root, tokens, phase, compiled>>

\* NodeList.render: return ''.join(bits)
NodeList_render_return ==
    /\ Running("nodelist", "loop")
    /\ top.i > Len(top.nodes)
    /\ Return(top.bits)
    /\ UNCHANGED <<context, ctx0, root, tokens, phase, compiled>>

\* TextNode.render
TextNode_render ==
    /\ Running("text", "render")
    /\ Return(top.node.s)
    /\ UNCHANGED <<context, ctx0, root, tokens, phase, compiled>>

\* VariableNode.render
VariableNode_render ==
    /\ Running("var", "render")
    /\ Return(Str(Resolve(top.node.expr, context)))
    /\ UNCHANGED <<context, ctx0, root, tokens, phase, compiled>>

----------------------------------------------------------------------------
(* FragmentNode.render *)

\* line 68 with a check for inclusion cycles: a fragment whose sub-template is
\* already being rendered by an enclosing fragment renders to the empty string
FragmentNode_render_load_cycle_checked ==
    /\ Running("fragment", "load")
    /\ LET name == ResolveVariable(top.node.template_name, context)
           tmpl == GetTemplate(name.v)
       IN  IF ~name.ok THEN Raise("VariableDoesNotExist")
           ELSE IF ~tmpl.ok THEN Raise("TemplateDoesNotExist")
           ELSE IF \E j \in 2..Len(stack) :
                       stack[j].fn = "fragment" /\ stack[j].template = tmpl.nodes
                THEN Return(<<>>)
                ELSE /\ stack' = <<[top EXCEPT !.template = tmpl.nodes, !.pc = "push"]>>
                                  \o Tail(stack)
                     /\ UNCHANGED <<status, error, result>>
    /\ UNCHANGED <<context, ctx0, root, tokens, phase, compiled>>

\* line 68 run after lines 70-71: the scope is pushed and the guard set before the
\* template is loaded
FragmentNode_render_load_after_push ==
    /\ Running("fragment", "load")
    /\ context' = SetItem(Push(context), GuardKey, True)
    /\ LET name == ResolveVariable(top.node.template_name, Push(context))
           tmpl == GetTemplate(name.v)
       IN  IF ~name.ok THEN Raise("VariableDoesNotExist")
           ELSE IF ~tmpl.ok THEN Raise("TemplateDoesNotExist")
           ELSE /\ stack' = <<[top EXCEPT !.template = tmpl.nodes, !.pc = "push"]>>
                             \o Tail(stack)
                /\ UNCHANGED <<status, error, result>>
    /\ UNCHANGED <<ctx0, root, tokens, phase, compiled>>

\* line 68: template = loader.get_template(resolve_variable(self.template_name, context))
FragmentNode_render_load ==
    /\ Running("fragment", "load")
    /\ LET name == ResolveVariable(top.node.template_name, context)
           tmpl == GetTemplate(name.v)
       IN  IF ~name.ok THEN Raise("VariableDoesNotExist")
           ELSE IF ~tmpl.ok THEN Raise("TemplateDoesNotExist")
           ELSE /\ stack' = <<[top EXCEPT !.template = tmpl.nodes, !.pc = "push"]>>
                             \o Tail(stack)
                /\ UNCHANGED <<status, error, result>>
    /\ UNCHANGED <<context, ctx0, root, tokens, phase, compiled>>

\* line 70: context.push()
FragmentNode_render_push ==
    /\ Running("fragment", "push")
    /\ context' = Push(context)
    /\ Goto("guard")
    /\ UNCHANGED <<status, error, result, ctx0, root, tokens, phase, compiled>>

\* line 71: context[FragmentNode.__class__.__name__] = True
FragmentNode_render_guard ==
    /\ Running("fragment", "guard")
    /\ context' = SetItem(context, GuardKey, True)
    /\ Goto("params")
    /\ UNCHANGED <<status, error, result, ctx0, root, tokens, phase, compiled>>

\* lines 72-73: for i in self.params: i.render(context)
FragmentNode_render_param ==
    /\ Running("fragment", "params")
    /\ top.i <= Len(top.nodes)
    /\ Call(Enter(top.nodes[top.i]), "param")
    /\ UNCHANGED <<context, ctx0, root, tokens, phase, compiled>>

\* line 74: template.render(context)
FragmentNode_render_template ==
    /\ Running("fragment", "params")
    /\ top.i > Len(top.nodes)
    /\ Call(EnterNodeList(top.template), "template")
    /\ UNCHANGED <<context, ctx0, root, tokens, phase, compiled>>

\* line 75 deleting the guard key from every scope of the context
FragmentNode_render_del_everywhere ==
    /\ Running("fragment", "del")
    /\ IF context[1][GuardKey] = Absent
       THEN Raise("KeyError") /\ UNCHANGED context
       ELSE /\ context' = [i \in 1..Len(context) |->
                              [context[i] EXCEPT ![GuardKey] = Absent]]
            /\ Goto("pop")
            /\ UNCHANGED <<status, error, result>>
    /\ UNCHANGED <<ctx0, root, tokens, phase, compiled>>

\* line 75: del context[FragmentNode.__class__.__name__]
FragmentNode_render_del ==
    /\ Running("fragment", "del")
    /\ IF context[1][GuardKey] = Absent
       THEN Raise("KeyError") /\ UNCHANGED context
       ELSE /\ context' = DelItem(context, GuardKey)
            /\ Goto("pop")
            /\ UNCHANGED <<status, error, result>>
    /\ UNCHANGED <<ctx0, root, tokens, phase, compiled>>

\* line 76 left out: the scope stays on the context
FragmentNode_render_pop_missing ==
    /\ Running("fragment", "pop")
    /\ Goto("return")
    /\ UNCHANGED <<context, status, error, result, ctx0, root, tokens, phase, compiled>>

\* line 76: context.pop()
FragmentNode_render_pop ==
    /\ Running("fragment", "pop")
    /\ IF Len(context) = 1
       THEN Raise("ContextPopException") /\ UNCHANGED context
       ELSE /\ context' = Pop(context)
            /\ Goto("return")
            /\ UNCHANGED <<status, error, result>>
    /\ UNCHANGED <<ctx0, root, tokens, phase, compiled>>

\* line 78: return body
FragmentNode_render_return ==
    /\ Running("fragment", "return")
    /\ Return(top.body)
    /\ UNCHANGED <<context, ctx0, root, tokens, phase, compiled>>

----------------------------------------------------------------------------
(* ParamNode.render *)

\* lines 94-95 looking for the guard key in the current scope only
ParamNode_render_guard_top_only ==
    /\ Running("param", "guard")
    /\ IF context[1][GuardKey] = Absent
       THEN Raise("TemplateSyntaxError")
       ELSE Goto("bind_or_skip") /\ UNCHANGED <<status, error, result>>
    /\ UNCHANGED <<context, ctx0, root, tokens, phase, compiled>>

\* lines 94-95: the guard check
ParamNode_render_guard ==
    /\ Running("param", "guard")
    /\ IF ~Contains(context, GuardKey)
       THEN Raise("TemplateSyntaxError")
       ELSE Goto("bind_or_skip") /\ UNCHANGED <<status, error, result>>
    /\ UNCHANGED <<context, ctx0, root, tokens, phase, compiled>>

\* lines 96-97 resolving against the context as it was outside the fragment's scope
ParamNode_render_value_snapshot ==
    /\ Running("param", "bind_or_skip")
    /\ ValueTruthy(top.node.value)
    /\ context' = SetItem(context, top.node.name, Resolve(top.node.value, Tail(context)))
    /\ Goto("return")
    /\ UNCHANGED <<status, error, result, ctx0, root, tokens, phase, compiled>>

\* lines 96-97 resolving against the newest scope alone
ParamNode_render_value_scope_only ==
    /\ Running("param", "bind_or_skip")
    /\ ValueTruthy(top.node.value)
    /\ context' = SetItem(context, top.node.name, Resolve(top.node.value, <<context[1]>>))
    /\ Goto("return")
    /\ UNCHANGED <<status, error, result, ctx0, root, tokens, phase, compiled>>

\* lines 96-97: context[self.name] = self.value.resolve(context)
ParamNode_render_value ==
    /\ Running("param", "bind_or_skip")
    /\ ValueTruthy(top.node.value)
    /\ context' = SetItem(context, top.node.name, Resolve(top.node.value, context))
    /\ Goto("return")
    /\ UNCHANGED <<status, error, result, ctx0, root, tokens, phase, compiled>>

\* lines 98-99 rendering the body in a scope of its own that is never popped
ParamNode_render_body_scoped ==
    /\ Running("param", "bind_or_skip")
    /\ ~ValueTruthy(top.node.value)
    /\ BodyTruthy(top.node.body_value)
    /\ context' = Push(context)
    /\ Call(EnterNodeList(top.node.body_value.nodes), "body")
    /\ UNCHANGED <<ctx0, root, tokens, phase, compiled>>

\* lines 98-99: self.body_value.render(context) is called
ParamNode_render_body ==
    /\ Running("param", "bind_or_skip")
    /\ ~ValueTruthy(top.node.value)
    /\ BodyTruthy(top.node.body_value)
    /\ Call(EnterNodeList(top.node.body_value.nodes), "body")
    /\ UNCHANGED <<context, ctx0, root, tokens, phase, compiled>>

\* line 99 binding the name without the rendered body
ParamNode_render_bind_dropped ==
    /\ Running("param", "bind")
    /\ context' = SetItem(context, top.node.name, PyStr(<<>>))
    /\ Goto("return")
    /\ UNCHANGED <<status, error, result, ctx0, root, tokens, phase, compiled>>

\* line 99: context[self.name] = the string the body rendered to
ParamNode_render_bind ==
    /\ Running("param", "bind")
    /\ context' = SetItem(context, top.node.name, PyStr(top.bits))
    /\ Goto("return")
    /\ UNCHANGED <<status, error, result, ctx0, root, tokens, phase, compiled>>

\* lines 96, 98: neither self.value nor self.body_value is true
ParamNode_render_skip ==
    /\ Running("param", "bind_or_skip")
    /\ ~ValueTruthy(top.node.value)
    /\ ~BodyTruthy(top.node.body_value)
    /\ Goto("return")
    /\ UNCHANGED <<context, status, error, result, ctx0, root, tokens, phase, compiled>>

\* line 100: return ""
ParamNode_render_return ==
    /\ Running("param", "return")
    /\ Return(<<>>)
    /\ UNCHANGED <<context, ctx0, root, tokens, phase, compiled>>

----------------------------------------------------------------------------
(* The render of one node list against one context *)

Init ==
    /\ root \in Roots
    /\ ctx0 \in Contexts
    /\ context = ctx0
    /\ stack = <<[fn |-> "nodelist", node |-> TextNode(<<>>), nodes |-> root,
                  pc |-> "loop", i |-> 1, bits |-> <<>>, template |-> <<>>,
                  body |-> <<>>, entry |-> ctx0]>>
    /\ status = "running"
    /\ error = ""
    /\ result = <<>>
    /\ tokens = <<>>
    /\ phase = "render"
    /\ compiled = NotCompiled

Next ==
    \/ NodeList_render_next
    \/ NodeList_render_return
    \/ TextNode_render
    \/ VariableNode_render
    \/ FragmentNode_render_load
    \/ FragmentNode_render_push
    \/ FragmentNode_render_guard
    \/ FragmentNode_render_param
    \/ FragmentNode_render_template
    \/ FragmentNode_render_del
    \/ FragmentNode_render_pop
    \/ FragmentNode_render_return
    \/ ParamNode_render_guard
    \/ ParamNode_render_value
    \/ ParamNode_render_body
    \/ ParamNode_render_bind
    \/ ParamNode_render_skip
    \/ ParamNode_render_return

Spec == Init /\ [][Next]_vars

\* the interpreter runs a render to its end: it always takes the next step
FairSpec == Spec /\ WF_vars(Next)

----------------------------------------------------------------------------
(* The compilation of one template source *)

ParseInit ==
    /\ tokens \in SeqsUpTo(TokenAlphabet, MaxTokens)
    /\ phase = "source"
    /\ compiled = NotCompiled
    /\ root = <<>>
    /\ ctx0 = <<EmptyDict>>
    /\ context = <<EmptyDict>>
    /\ stack = <<>>
    /\ status = "idle"
    /\ error = ""
    /\ result = <<>>

ParseNext == Compile

SpecParse == ParseInit /\ [][ParseNext]_vars

----------------------------------------------------------------------------
(* Helpers of the properties *)

\* some FragmentNode.render is on the call stack
FragmentInProgress == \E i \in 1..Len(stack) : stack[i].fn = "fragment"

\* the string a template writes for name n in context c
Shown(c, n) == IF Contains(c, n) THEN Str(GetItem(c, n)) ELSE <<>>

\* a param among nodes, or in the body of one, outside any nested fragment,
\* has the name n
RECURSIVE Binds(_, _)
Binds(nodes, n) ==
    \E i \in 1..Len(nodes) :
        /\ nodes[i].kind = "param"
        /\ \/ nodes[i].name = n
           \/ Binds(nodes[i].body_value.nodes, n)

\* {% fragment "f.html" %}{% param x %}{% fragment "g.html" %}{% param y "1" %}
\* {% endfragment %}{% endparam %}{% endfragment %}
F_nested == FragmentNode("'f.html'", <<P_x_frag>>)

\* children whose value is a literal, a variable, or a body of text and variables
SimpleChildren == {P_x_lit, P_y_xup, P_x_text, P_y_x, TextNode(<<" ">>)}

\* the string a list of TextNodes and VariableNodes renders to in context c
RECURSIVE RenderSimple(_, _)
RenderSimple(nodes, c) ==
    IF nodes = <<>> THEN <<>>
    ELSE (IF Head(nodes).kind = "text" THEN Head(nodes).s
          ELSE Str(Resolve(Head(nodes).expr, c)))
         \o RenderSimple(Tail(nodes), c)

\* the scope of a fragment after its first n children, when every param binds
\* its name, in child order, to its value taken in the context as it then is
RECURSIVE LiveScope(_, _, _)
LiveScope(ps, n, outer) ==
    IF n = 0 THEN [EmptyDict EXCEPT ![GuardKey] = True]
    ELSE LET scope == LiveScope(ps, n - 1, outer)
             c == <<scope>> \o outer
             p == ps[n]
         IN  IF p.kind # "param" THEN scope
             ELSE IF ValueTruthy(p.value)
                  THEN [scope EXCEPT ![p.name] = Resolve(p.value, c)]
                  ELSE [scope EXCEPT ![p.name] = PyStr(RenderSimple(p.body_value.nodes, c))]

\* the running fragment has rendered all its children and is about to render
\* its sub-template (line 74)
AtTemplate == Running("fragment", "params") /\ top.i > Len(top.nodes)

----------------------------------------------------------------------------
(* C1 *)

\* C1: when FragmentNode.render returns, the context (its depth and every key
\* of every scope, the params' names and the guard key included) is what it
\* was when the render was called; so a render that was only fragments,
\* one or several in sequence, ends with the caller's context as it began.
C1_FragmentLeavesContextUnchanged ==
    /\ Running("fragment", "return") => context = top.entry
    /\ (status = "done" /\ \A i \in 1..Len(root) : root[i].kind = "fragment")
          => context = ctx0

\* the same fragment with a param rendered twice in sequence, finished
C1_Witness ==
    /\ status = "done"
    /\ root = <<FragmentNode("'f.html'", <<P_x_lit>>),
                FragmentNode("'f.html'", <<P_x_lit>>)>>
    /\ Len(ctx0) = 2
    /\ result = <<"a", "|", "B", "a", "|", "B">>
    /\ context = ctx0

----------------------------------------------------------------------------
(* C2 *)

\* C2: a ParamNode rendered while no FragmentNode render is in progress never
\* gets past its guard check (it raises), and the context stays as it was.
C2_ParamOutsideFragmentRaises ==
    /\ (status = "running" /\ stack # <<>> /\ top.fn = "param" /\ top.pc # "guard")
          => FragmentInProgress
    /\ (Len(root) = 1 /\ root[1].kind = "param" /\ status # "running")
          => (status = "failed" /\ error = "TemplateSyntaxError" /\ context = ctx0)

----------------------------------------------------------------------------
(* C3 *)

\* C3: after a render that failed, every scope a fragment pushed has been
\* popped and the guard key it set is gone: the context has its depth from
\* before the render, and holds the guard key only if it held it before.
C3_FailedRenderPopsItsScopes ==
    status = "failed" =>
        /\ Len(context) = Len(ctx0)
        /\ Contains(context, GuardKey) <=> Contains(ctx0, GuardKey)

----------------------------------------------------------------------------
(* C4 *)

\* C4: (for a caller's context that does not hold the guard key) a ParamNode
\* gets past its guard check only when it is rendered by the loop over a
\* fragment's children (line 73): not in a sub-template, not in a param body.
C4_ParamOnlyDirectChild ==
    (/\ ~Contains(ctx0, GuardKey)
     /\ status = "running" /\ stack # <<>>
     /\ top.fn = "param" /\ top.pc # "guard")
        => (/\ Len(stack) >= 2
            /\ stack[2].fn = "fragment"
            /\ stack[2].pc = "param")

----------------------------------------------------------------------------
(* C5 *)

\* C5: for a fragment nested in the body of a param x of an outer fragment:
\* the inner sub-template renders with the inner param y = "1" bound; the
\* string it produces, "(1)", is what the outer param binds to x; when the
\* outer sub-template is about to render, y reads as it did before the outer
\* fragment began (unless a param of the outer fragment itself is named y);
\* both fragments return with the context as it was at their call, and the
\* whole render yields the outer sub-template's text with the caller's
\* context unchanged.
C5_NestedFragment ==
    /\ (/\ status = "running" /\ Len(stack) >= 2
        /\ top.fn = "nodelist"
        /\ stack[2].fn = "fragment" /\ stack[2].pc = "template"
        /\ stack[2].node = F_inner)
          => Lookup(context, "y") = PyStr(<<"1">>)
    /\ (Running("fragment", "del") /\ top.node = F_inner)
          => top.body = <<"(", "1", ")">>
    /\ (Running("param", "return") /\ top.node = P_x_frag)
          => context[1]["x"] = PyStr(<<"(", "1", ")">>)
    /\ (/\ AtTemplate
        /\ \E i \in 1..Len(top.nodes) : top.nodes[i] = P_x_frag
        /\ ~Binds(top.nodes, "y"))
          => Lookup(context, "y") = Lookup(top.entry, "y")
    /\ (/\ Running("fragment", "return")
        /\ \/ top.node = F_inner
           \/ \E i \in 1..Len(top.nodes) : top.nodes[i] = P_x_frag)
          => context = top.entry
    /\ (status = "done" /\ root = <<F_nested>>)
          => (/\ result = <<"(", "1", ")", "|">> \o Shown(ctx0, "y")
              /\ context = ctx0)

\* the nested example finished, rendered for a caller that binds y itself
C5_Witness ==
    /\ status = "done"
    /\ root = <<F_nested>>
    /\ result = <<"(", "1", ")", "|", "B">>
    /\ context = ctx0

----------------------------------------------------------------------------
(* C6 *)

\* C6: a ParamNode without a value expression has, when it returns, bound
\* its name in the current scope to the string its body rendered to: the
\* empty string for a body of zero nodes.
C6_BodyParamBindsRenderedBody ==
    (Running("param", "return") /\ ~ValueTruthy(top.node.value))
        => context[1][top.node.name] = PyStr(top.bits)

----------------------------------------------------------------------------
(* C7 *)

\* C7: when two sibling params of a fragment have the same name, the
\* sub-template reads for that name the value of the later one, whether the
\* two are value params or body params (an empty body being the empty string).
C7_LastWriteWins ==
    (/\ AtTemplate
     /\ \A i \in 1..Len(top.nodes) : top.nodes[i] \in SimpleChildren \cup {P_x_empty})
        => \A i \in 1..Len(top.nodes) :
              (/\ top.nodes[i].kind = "param"
               /\ \E j \in 1..(i-1) :
                     top.nodes[j].kind = "param" /\ top.nodes[j].name = top.nodes[i].name
               /\ \A j \in (i+1)..Len(top.nodes) :
                     ~(top.nodes[j].kind = "param" /\ top.nodes[j].name = top.nodes[i].name))
              => Lookup(context, top.nodes[i].name)
                    = LiveScope(top.nodes, i, top.entry)[top.nodes[i].name]

----------------------------------------------------------------------------
(* C8 *)

\* C8: while a fragment renders its children, its scope is what the children
\* rendered so far make of it when each param's value expression or body is
\* evaluated in the context as it is at that moment: with the names bound by
\* the earlier siblings, without those bound by the later ones.
C8_ParamSeesLiveContext ==
    (/\ Running("fragment", "params")
     /\ \A i \in 1..Len(top.nodes) : top.nodes[i] \in SimpleChildren)
        => context = <<LiveScope(top.nodes, top.i - 1, top.entry)>> \o top.entry

\* {% param x "a" %}{% param y x|upper %} rendered: y is "A", whatever the
\* caller binds x to
C8_Witness ==
    /\ AtTemplate
    /\ top.nodes = <<P_x_lit, P_y_xup>>
    /\ Lookup(top.entry, "x") = PyStr(<<"A">>)
    /\ context[1]["x"] = PyStr(<<"a">>)
    /\ context[1]["y"] = PyStr(<<"A">>)

----------------------------------------------------------------------------
(* C9 *)

\* the block token is a tag named tag
IsTag(token, tag) ==
    /\ token.token_type = "block"
    /\ Split(token.contents) # <<>>
    /\ Split(token.contents)[1] = tag

\* C9: compiling a template that opens with a fragment tag whose arguments
\* are not exactly one template name fails with a TemplateSyntaxError, and
\* yields no node.
C9_MalformedFragmentIsSyntaxError ==
    (/\ phase = "compiled"
     /\ tokens # <<>>
     /\ IsTag(Head(tokens), "fragment")
     /\ Len(SplitContents(Head(tokens).contents)) # 2)
        => (/\ ~compiled.ok
            /\ compiled.err = "TemplateSyntaxError")

----------------------------------------------------------------------------
(* C10 *)

\* some ParamNode among nodes, at any depth, has a value expression and a body
RECURSIVE HasValueAndBody(_)
HasValueAndBody(nodes) ==
    \E i \in 1..Len(nodes) :
        \/ /\ nodes[i].kind = "param"
           /\ ValueTruthy(nodes[i].value)
           /\ nodes[i].body_value.some
        \/ HasValueAndBody(nodes[i].body_value.nodes)
        \/ HasValueAndBody(nodes[i].params)

\* C10: for a template that opens with a param tag which compiles: with 3 or
\* more words the ParamNode has a value expression, no body, and the tokens
\* after the tag are all still there; with exactly 2 words it has no value
\* expression, has a body (possibly of zero nodes), and the tokens are consumed
\* through an endparam token; and no ParamNode of any compiled template has
\* both a value expression and a body.
C10_ValueAndBodyExclusive ==
    /\ (/\ phase = "compiled"
        /\ tokens # <<>>
        /\ IsTag(Head(tokens), "param")
        /\ param(Tail(tokens), Head(tokens)).ok)
          => LET r    == param(Tail(tokens), Head(tokens))
                 node == r.nodes[1]
                 n    == Len(Split(Head(tokens).contents))
                 used == Len(Tail(tokens)) - Len(r.tokens)
             IN  /\ n >= 3 =>
                       /\ ValueTruthy(node.value)
                       /\ node.body_value = NoBody
                       /\ r.tokens = Tail(tokens)
                 /\ n = 2 =>
                       /\ ~ValueTruthy(node.value)
                       /\ node.body_value.some
                       /\ used >= 1
                       /\ r.tokens = SubSeq(Tail(tokens), used + 1, Len(Tail(tokens)))
                       /\ Tail(tokens)[used] = Token("block", <<"endparam">>)
    /\ (phase = "compiled" /\ compiled.ok) => ~HasValueAndBody(compiled.nodes)

----------------------------------------------------------------------------
(* C11 *)

\* C11: FragmentNode.render resolves the template name and loads the sub-template
\* while the context is still the one it was called with; the step changes no
\* scope, and when the name does not resolve or the loader finds no template the
\* error leaves every activation with the context as it was at the call: no scope
\* pushed, no guard key set, no param rendered
C11_LoadBeforePush ==
    [][Running("fragment", "load") =>
          /\ context = top.entry
          /\ context' = context
          /\ top.i = 1
          /\ LET name == ResolveVariable(top.node.template_name, top.entry)
             IN  /\ ~name.ok => status' = "failed" /\ error' = "VariableDoesNotExist"
                 /\ name.ok /\ ~GetTemplate(name.v).ok =>
                        status' = "failed" /\ error' = "TemplateDoesNotExist"
                 /\ status' = "failed" => stack' = <<>>]_vars

\* a root fragment whose name variable holds an unknown template name and which
\* has params has failed, and the context is the caller's
C11_Witness ==
    /\ status = "failed"
    /\ error = "TemplateDoesNotExist"
    /\ Len(root) = 1
    /\ root[1].kind = "fragment"
    /\ root[1].template_name = "t"
    /\ Len(root[1].params) > 0
    /\ context = ctx0

----------------------------------------------------------------------------
(* C12 *)

\* the names a caller or a param may bind, the guard key apart
UserNames == Keys \ {GuardKey}

\* the innermost FragmentNode.render on the call stack
InnermostFragment ==
    stack[CHOOSE i \in 1..Len(stack) :
              /\ stack[i].fn = "fragment"
              /\ \A j \in 1..(i-1) : stack[j].fn # "fragment"]

\* a param among nodes has the name n
ParamNamed(nodes, n) ==
    \E i \in 1..Len(nodes) : nodes[i].kind = "param" /\ nodes[i].name = n

\* C12: once the guard key is set, every user name reads as it did before the
\* fragment began; and all the while the sub-template of a fragment (with params
\* that bind a value or a body of text and variables) is rendered, a user name
\* reads the value the fragment's params bound to it when one of them has that
\* name, and otherwise the value it had before the fragment began.
C12_SubTemplateReadsParamsOverOuter ==
    /\ (Running("fragment", "params") /\ top.i = 1)
          => \A n \in UserNames : Lookup(context, n) = Lookup(top.entry, n)
    /\ (/\ status = "running"
        /\ FragmentInProgress
        /\ InnermostFragment.pc = "template"
        /\ \A i \in 1..Len(InnermostFragment.nodes) :
              InnermostFragment.nodes[i] \in SimpleChildren)
          => LET F == InnermostFragment
             IN  \A n \in UserNames :
                    Lookup(context, n) =
                        IF ParamNamed(F.nodes, n)
                        THEN LiveScope(F.nodes, Len(F.nodes), F.entry)[n]
                        ELSE Lookup(F.entry, n)

----------------------------------------------------------------------------
(* C13 *)

\* the scope the fragment activation a pushed at line 70
OwnScope(a) == context[Len(context) - Len(a.entry)]

\* C13: every fragment between its lines 71 and 75 holds the guard key in the
\* scope it pushed itself, whatever fragments nested in it have set and cleared
\* since; so a fragment that returns to an enclosing fragment leaves that one's
\* guard in the current scope, the guard is there whenever a direct child param
\* of a fragment reaches its check, and the check fails for no param of a render
\* that began with a fragment.
C13_GuardKeptInOwnScope ==
    /\ status = "running" =>
          \A i \in 1..Len(stack) :
              (stack[i].fn = "fragment"
                  /\ stack[i].pc \in {"params", "param", "template", "del"})
                => /\ Len(context) > Len(stack[i].entry)
                   /\ OwnScope(stack[i])[GuardKey] = True
    /\ (Running("fragment", "return")
          /\ \E i \in 2..Len(stack) : stack[i].fn = "fragment")
          => context[1][GuardKey] = True
    /\ (Running("param", "guard") /\ stack[2].fn = "fragment" /\ stack[2].pc = "param")
          => context[1][GuardKey] = True
    /\ (status = "failed" /\ root[1].kind = "fragment")
          => error # "TemplateSyntaxError"

\* the sibling param after a param whose body held a nested fragment is at its
\* guard check: the nested fragment is done, the guard is there
C13_Witness ==
    /\ Running("param", "guard")
    /\ stack[2].fn = "fragment"
    /\ stack[2].nodes = <<P_x_frag, P_x_lit>>
    /\ stack[2].i = 2
    /\ context[1]["x"] = PyStr(<<"(", "1", ")">>)
    /\ context[1][GuardKey] = True

----------------------------------------------------------------------------
(* C14 *)

\* a param with a value expression, direct child of a fragment, has bound its name
ValueParamBound ==
    /\ Running("param", "return")
    /\ ValueTruthy(top.node.value)
    /\ stack[2].fn = "fragment"
    /\ stack[2].pc = "param"

----------------------------------------------------------------------------
(* C15 *)

\* the sub-template is one of text and variables only
SimpleTemplate(nodes) ==
    \A i \in 1..Len(nodes) : nodes[i].kind \in {"text", "var"}

\* C15: the local `body` of a fragment is the string its sub-template rendered
\* to in the fragment's scope, and that is the string the fragment returns:
\* a render of one fragment whose children are text and params yields the
\* sub-template's string alone, with nothing of what the children rendered; a
\* param returns the empty string, to a node list that holds it as to a caller.
C15_OutputIsSubTemplateAlone ==
    /\ (Running("fragment", "del") /\ SimpleTemplate(top.template))
          => top.body = RenderSimple(top.template, context)
    /\ (Running("fragment", "del") /\ top.template = T_p)
          => top.body = <<"b">>
    /\ (/\ status = "done"
        /\ Len(root) = 1
        /\ root[1].kind = "fragment"
        /\ \A i \in 1..Len(root[1].params) : root[1].params[i] \in SimpleChildren
        /\ root[1].template_name \in {"'f.html'", "t"})
          => result = RenderSimple(T_f,
                         <<LiveScope(root[1].params, Len(root[1].params), ctx0)>>
                             \o ctx0)
    /\ (status = "done" /\ root[1].kind = "param") => result = <<>>
    /\ (Running("param", "return") /\ top.node = P_y_param)
          => context[1]["y"] = PyStr(<<>>)

\* {% fragment "f.html" %} {% param x %}b{% endparam %}{% endfragment %} is
\* done: neither the space nor the body text is in the output
C15_Witness ==
    /\ status = "done"
    /\ root = <<FragmentNode("'f.html'", <<TextNode(<<" ">>), P_x_text>>)>>
    /\ ctx0 = <<EmptyDict>>
    /\ result = <<"b", "|">>

----------------------------------------------------------------------------
(* C16 *)

\* the render begins with a fragment of a.html, which includes b.html, which
\* includes a.html
Cyclic == root[1].kind = "fragment" /\ root[1].template_name = "'a.html'"

\* the fragment activations that enclose the one at stack[i]
Enclosing(i) == {j \in (i+1)..Len(stack) : stack[j].fn = "fragment"}

\* C16: every render comes to an end; one whose templates do not include each
\* other never reaches the interpreter's recursion limit; one of two templates
\* that include each other never returns: nothing stops the recursion, each
\* inclusion is entered with one scope more on the context than the one around
\* it, and the render ends in an error, which when it is the recursion limit
\* leaves the context as many scopes deeper as the limit let inclusions begin.
C16_OnlyTheRecursionLimitEndsACycle ==
    /\ <>(status \in {"done", "failed"})
    /\ [](error = "RuntimeError" => Cyclic)
    /\ [](Cyclic => status # "done")
    /\ []((Cyclic /\ status = "running") =>
            \A i \in 1..Len(stack) :
                stack[i].fn = "fragment" =>
                    Len(stack[i].entry) = Len(ctx0) + Cardinality(Enclosing(i)))
    /\ [](error = "RuntimeError" =>
            Len(context) >= Len(ctx0) + (RecursionLimit - 1) \div 2)

\* a.html and b.html have included each other until the recursion limit
C16_Witness ==
    /\ Cyclic
    /\ status = "failed"
    /\ error = "RuntimeError"
    /\ Len(context) >= Len(ctx0) + 4

----------------------------------------------------------------------------
(* C17 *)

\* the FragmentNode renders past their push (line 70) and before their pop
\* (line 76)
BetweenPushAndPop ==
    {i \in 1..Len(stack) :
        /\ stack[i].fn = "fragment"
        /\ stack[i].pc \in {"guard", "params", "param", "template", "del", "pop"}}

\* C17: while a render runs, the context is as many scopes deeper than when it
\* began as there are FragmentNode renders between their push and their pop; a
\* render that returned has the depth it began with; and the only steps that
\* change the depth are lines 70 and 76 of FragmentNode.render.
C17_DepthCountsFragmentsInProgress ==
    /\ [](status = "running" =>
            Len(context) = Len(ctx0) + Cardinality(BetweenPushAndPop))
    /\ [](status = "done" => Len(context) = Len(ctx0))
    /\ [][Len(context') # Len(context) =>
             \/ Running("fragment", "push") /\ Len(context') = Len(context) + 1
             \/ Running("fragment", "pop") /\ Len(context') = Len(context) - 1]_vars

\* the sub-template of a fragment nested in a param body is being rendered:
\* two fragments are in progress, the context is two scopes deeper
C17_Witness ==
    /\ Running("var", "render")
    /\ Cardinality(BetweenPushAndPop) = 2
    /\ InnermostFragment.node = F_inner
    /\ Len(context) = Len(ctx0) + 2

----------------------------------------------------------------------------
(* C18 *)

\* the scopes of the context below the newest n
Below(c, n) == SubSeq(c, n + 1, Len(c))

\* the step leaves every scope but the current one, and in the current one
\* every key but k, as it is
WritesOnly(k) ==
    /\ Len(context') = Len(context)
    /\ Tail(context') = Tail(context)
    /\ \A j \in Keys \ {k} : context'[1][j] = context[1][j]

\* C18: all the while a FragmentNode render is on the call stack, the scopes
\* that were on the context when it was called are there unchanged, under the
\* scopes pushed since; a step of ParamNode.render writes nothing but the
\* param's name in the current scope, and lines 71 and 75 write nothing but the
\* guard key in the current scope.
C18_OuterScopesUnchanged ==
    /\ [](status = "running" =>
            \A i \in 1..Len(stack) :
                stack[i].fn = "fragment" =>
                    /\ Len(context) >= Len(stack[i].entry)
                    /\ Below(context, Len(context) - Len(stack[i].entry))
                          = stack[i].entry)
    /\ [][(status = "running" /\ stack # <<>> /\ top.fn = "param")
             => WritesOnly(top.node.name)]_vars
    /\ [][(Running("fragment", "guard") \/ Running("fragment", "del"))
             => WritesOnly(GuardKey)]_vars

\* {% param x "a" %} in a fragment whose caller binds x to "A": the
\* sub-template is about to render, x is "a" in the fragment's scope and still
\* "A" in the caller's
C18_Witness ==
    /\ AtTemplate
    /\ top.nodes = <<P_x_lit>>
    /\ context[1]["x"] = PyStr(<<"a">>)
    /\ Tail(context) = top.entry
    /\ Lookup(Tail(context), "x") = PyStr(<<"A">>)

----------------------------------------------------------------------------
(* C19 *)

\* the value the param p binds when it is rendered in context c
Bound(p, c) ==
    IF ValueTruthy(p.value) THEN Resolve(p.value, c)
    ELSE PyStr(RenderSimple(p.body_value.nodes, c))

\* C19: the guard key is the string "type", and the check is passed when
\* any scope of the context holds that key, whatever its value: a param
\* rendered by a caller, with no fragment around it, returns "" and has bound
\* its name in the caller's current scope when the caller's context holds the
\* key in some scope, and raises with the context untouched when it does not.
C19_GuardIsKeyPresence ==
    /\ GuardKey = "type"
    /\ (/\ status # "running"
        /\ Len(root) = 1
        /\ root[1] \in {P_x_lit, P_y_xup, P_x_text, P_y_x})
          => IF \E i \in 1..Len(ctx0) : ctx0[i][GuardKey] # Absent
             THEN /\ status = "done"
                  /\ result = <<>>
                  /\ context = SetItem(ctx0, root[1].name, Bound(root[1], ctx0))
             ELSE /\ status = "failed"
                  /\ error = "TemplateSyntaxError"
                  /\ context = ctx0

\* {% param x "a" %} rendered for a caller whose outer scope binds type to
\* "c": done, x is bound in the caller's current scope
C19_Witness ==
    /\ status = "done"
    /\ root = <<P_x_lit>>
    /\ Len(ctx0) = 2
    /\ ctx0[1][GuardKey] = Absent
    /\ ctx0[2][GuardKey] = PyStr(<<"c">>)
    /\ context[1]["x"] = PyStr(<<"a">>)
    /\ context[2] = ctx0[2]

====
